---- MODULE Spec2Model ----
(***************************************************************************)
(* Model of lapack-derive (src/lapack-derive/src/lib.rs): the #[lapack]    *)
(* attribute that derives a value/reference/slice based wrapper from a raw *)
(* pointer-based foreign function declaration.                             *)
(*                                                                         *)
(* Identifiers are sequences of one-character strings, so that             *)
(* to_lowercase and trim_end_matches are computed character by character.  *)
(* Types and expressions are the syntax trees that syn::parse_str builds   *)
(* from the strings the code formats.                                      *)
(***************************************************************************)
EXTENDS Integers, Sequences, FiniteSets, TLC

\* Longest parameter list of the enumerated declarations.
MaxParams == 2
\* Largest number of trailing underscores of the enumerated identifiers.
MaxUnderscores == 2

---------------------------------------------------------------------------
\* Characters and strings

UpperChars ==
  <<"A","B","C","D","E","F","G","H","I","J","K","L","M",
    "N","O","P","Q","R","S","T","U","V","W","X","Y","Z">>

LowerChars ==
  <<"a","b","c","d","e","f","g","h","i","j","k","l","m",
    "n","o","p","q","r","s","t","u","v","w","x","y","z">>

\* char::to_lowercase on the ASCII letters
ToLowerChar(c) ==
  IF \E k \in 1..Len(UpperChars) : UpperChars[k] = c
  THEN LowerChars[CHOOSE k \in 1..Len(UpperChars) : UpperChars[k] = c]
  ELSE c

\* the mutant: the name is matched as written
no_lowercase(name) == name

\* String::to_lowercase
to_lowercase(name) == [k \in 1..Len(name) |-> ToLowerChar(name[k])]

\* the mutant: only one trailing underscore is removed
trim_one(s, c) ==
  IF Len(s) > 0 /\ s[Len(s)] = c THEN SubSeq(s, 1, Len(s) - 1) ELSE s

\* str::trim_end_matches
RECURSIVE trim_end_matches(_, _)
trim_end_matches(s, c) ==
  IF Len(s) > 0 /\ s[Len(s)] = c
  THEN trim_end_matches(SubSeq(s, 1, Len(s) - 1), c)
  ELSE s

---------------------------------------------------------------------------
\* Syntax trees

\* syn::Type: a raw pointer, a reference, a reference to a slice or a path.
\* elem is the shape of the pointee ("Path", "Ptr", "Array"), path its text.
Type(kind, mut, elem, path) ==
  [kind |-> kind, mut |-> mut, elem |-> elem, path |-> path]

\* syn::FnArg: a typed pattern `pat: ty` or a receiver
FnArg(arg, pat, name, ty) ==
  [arg |-> arg, pat |-> pat, name |-> name, ty |-> ty]

\* syn::Expr: a path `x`, a method call `x.m()`, or a reference
\* `&x`, `&mut x`, `&(x as T)`, `&mut (x as T)`
Expr(kind, ident, method, mut, cast) ==
  [kind |-> kind, ident |-> ident, method |-> method, mut |-> mut,
   cast |-> cast]

\* syn::Signature of a foreign function
Signature(ident, inputs, output) ==
  [ident |-> ident, inputs |-> inputs, output |-> output]

\* an item of a foreign block
ForeignItem(item, sig) == [item |-> item, sig |-> sig]

\* proc_macro2::TokenTree
TokenTree(tt, text, delim, stream) ==
  [tt |-> tt, text |-> text, delim |-> delim, stream |-> stream]

\* the result of a call that may panic
Ok(v) == [ok |-> TRUE, val |-> v]
Panic(msg) == [ok |-> FALSE, val |-> msg]

---------------------------------------------------------------------------
\* Ptr

Constant(ty) == [tag |-> "Constant", ty |-> ty]
Mutable(ty) == [tag |-> "Mutable", ty |-> ty]

\* Ptr::ty
PtrTy(ptr) == ptr.ty

\* the mutant: every pointee is taken as a path
PtrFromAnyElem(ptr_ty) ==
  IF ptr_ty.mut THEN Ok(Mutable(ptr_ty.path)) ELSE Ok(Constant(ptr_ty.path))

\* impl From<syn::TypePtr> for Ptr
PtrFrom(ptr_ty) ==
  IF ptr_ty.elem = "Path"
  THEN IF ptr_ty.mut THEN Ok(Mutable(ptr_ty.path))
       ELSE Ok(Constant(ptr_ty.path))
  ELSE Panic("Pointer for non-path is not supported yet")

\* parse_input: `a: *mut f64` into ("a", Mutable("f64"))
parse_input(pat) ==
  IF pat.pat # "Ident" THEN Panic("unreachable")
  ELSE IF pat.ty.kind # "Ptr"
  THEN Panic("LAPACK raw API must be consists of pointer arguments")
  ELSE LET ptr == PtrFrom(pat.ty)
       IN  IF ptr.ok THEN Ok([name |-> pat.name, ptr |-> ptr.val]) ELSE ptr

---------------------------------------------------------------------------
\* The names the code matches on

Name_info == <<"i","n","f","o">>
Name_a == <<"a">>
Name_b == <<"b">>
Name_ipiv == <<"i","p","i","v">>
Name_work == <<"w","o","r","k">>

ArrayNames == {Name_a, Name_b, Name_ipiv, Name_work}

\* the mutant: the constness of the pointer is not looked at
new_type_all_shared(name, ptr) ==
  LET lower == to_lowercase(name)
  IN  IF lower = Name_info THEN Type("Reference", TRUE, "Path", "i32")
      ELSE IF lower \in ArrayNames
      THEN Type("RefSlice", FALSE, "Path", ptr.ty)
      ELSE Type("Path", FALSE, "Path", PtrTy(ptr))

\* signature_input, the match that chooses new_type, parsed by syn::parse_str
new_type(name, ptr) ==
  LET lower == to_lowercase(name)
  IN  IF lower = Name_info THEN Type("Reference", TRUE, "Path", "i32")
      ELSE IF lower \in ArrayNames
      THEN IF ptr.tag = "Constant"
           THEN Type("RefSlice", FALSE, "Path", ptr.ty)
           ELSE Type("RefSlice", TRUE, "Path", ptr.ty)
      ELSE Type("Path", FALSE, "Path", PtrTy(ptr))

\* signature_input, the closure applied to one argument
signature_input_arg(arg) ==
  IF arg.arg # "Typed"
  THEN Panic("LAPACK raw API does not contains non-typed argument")
  ELSE LET p == parse_input(arg)
       IN  IF p.ok
           THEN Ok([arg EXCEPT !.ty = new_type(p.val.name, p.val.ptr)])
           ELSE p

\* the first panic of a mapped sequence, or the collected values
Collect(r) ==
  IF \E k \in 1..Len(r) : ~r[k].ok
  THEN r[CHOOSE k \in 1..Len(r) :
             ~r[k].ok /\ \A j \in 1..(k - 1) : r[j].ok]
  ELSE Ok([k \in 1..Len(r) |-> r[k].val])

\* signature_input
signature_input(args) ==
  Collect([k \in 1..Len(args) |-> signature_input_arg(args[k])])

\* the mutant: the character cast is applied to every scalar
expr_cast_all(name, ptr) ==
  LET lower == to_lowercase(name)
  IN  IF lower = Name_info THEN Expr("Path", Name_info, "", FALSE, "")
      ELSE IF lower \in ArrayNames
      THEN IF ptr.tag = "Constant"
           THEN Expr("MethodCall", name, "as_ptr", FALSE, "")
           ELSE Expr("MethodCall", name, "as_mut_ptr", FALSE, "")
      ELSE Expr("Reference", name, "", ptr.tag = "Mutable", "c_char")

\* call, the match that chooses expr, parsed by syn::parse_str
expr(name, ptr) ==
  LET lower == to_lowercase(name)
  IN  IF lower = Name_info THEN Expr("Path", Name_info, "", FALSE, "")
      ELSE IF lower \in ArrayNames
      THEN IF ptr.tag = "Constant"
           THEN Expr("MethodCall", name, "as_ptr", FALSE, "")
           ELSE Expr("MethodCall", name, "as_mut_ptr", FALSE, "")
      ELSE IF ptr.tag = "Constant"
      THEN IF ptr.ty = "u8"
           THEN Expr("Reference", name, "", FALSE, "c_char")
           ELSE Expr("Reference", name, "", FALSE, "")
      ELSE IF ptr.ty = "u8"
           THEN Expr("Reference", name, "", TRUE, "c_char")
           ELSE Expr("Reference", name, "", TRUE, "")

\* call, the closure applied to one argument
call_arg(arg) ==
  IF arg.arg # "Typed" THEN Panic("unreachable")
  ELSE LET p == parse_input(arg)
       IN  IF p.ok THEN Ok(expr(p.val.name, p.val.ptr)) ELSE p

\* call
call(args) == Collect([k \in 1..Len(args) |-> call_arg(args[k])])

---------------------------------------------------------------------------
\* The entry points

\* syn::parse2::<syn::ForeignItemFn>: the stream is one function declaration
parse2(stream) ==
  IF Len(stream) = 1 /\ stream[1].item = "Fn"
  THEN Ok(stream[1])
  ELSE Panic("called Result::unwrap on an Err value")

\* parse_foreign_fn: extern "C" { fn dgetrs_(...); } -> fn dgetrs_(...);
parse_foreign_fn(tokens) ==
  IF Len(tokens) >= 3
  THEN IF tokens[3].tt = "Group" THEN parse2(tokens[3].stream)
       ELSE Panic("#[lapack] attribute must be put to extern C block")
  ELSE Panic("#[lapack] attribute must be put to extern C block")

\* syn::Ident::new, which rejects the empty string and the raw form r#name
IdentNew(s) ==
  IF s = <<>> THEN Panic("Ident is not allowed to be empty")
  ELSE IF \E k \in 1..Len(s) : s[k] = "#" THEN Panic("not a valid Ident")
  ELSE Ok(s)

\* wrap, the name of the wrapper: like dgetrs
wrap_name(lapack_sys_name) ==
  IdentNew(trim_end_matches(lapack_sys_name, "_"))

\* the mutant: the return type is not carried over
wrap_quote_no_output(lapack_sys_name, name, inputs, args, output) ==
  [vis |-> "pub", unsafety |-> TRUE, ident |-> name, inputs |-> inputs,
   output |-> "", callee |-> lapack_sys_name, args |-> args]

\* wrap, the quoted function:
\* pub unsafe fn #lapack_name ( #input ) #output { #lapack_sys_name ( #call ) }
wrap_quote(lapack_sys_name, name, inputs, args, output) ==
  [vis |-> "pub", unsafety |-> TRUE, ident |-> name, inputs |-> inputs,
   output |-> output, callee |-> lapack_sys_name, args |-> args]

\* lapack2, the quoted output: #func #wrap
lapack2_quote(tokens, wrapped) == <<tokens, wrapped>>

---------------------------------------------------------------------------
\* The enumerated inputs

ToUpperChar(c) ==
  IF \E k \in 1..Len(LowerChars) : LowerChars[k] = c
  THEN UpperChars[CHOOSE k \in 1..Len(LowerChars) : LowerChars[k] = c]
  ELSE c

\* every way of writing some letters of base in upper case
RECURSIVE CaseVariants(_)
CaseVariants(base) ==
  IF base = <<>> THEN {<<>>}
  ELSE {<<c>> \o v : c \in {Head(base), ToUpperChar(Head(base))},
                     v \in CaseVariants(Tail(base))}

IsCaseVariant(name, base) ==
  /\ Len(name) = Len(base)
  /\ \A k \in 1..Len(base) : name[k] \in {base[k], ToUpperChar(base[k])}

SeqsUpTo(S, n) == UNION {[1..k -> S] : k \in 0..n}

InsertAt(s, pos, e) ==
  SubSeq(s, 1, pos - 1) \o <<e>> \o SubSeq(s, pos, Len(s))

RECURSIVE Underscores(_)
Underscores(k) == IF k = 0 THEN <<>> ELSE <<"_">> \o Underscores(k - 1)

PtrType(mut, path) == Type("Ptr", mut, "Path", path)
Typed(name, ty) == FnArg("Typed", "Ident", name, ty)

Ident(text) == TokenTree("Ident", text, "None", <<>>)
Literal(text) == TokenTree("Literal", text, "None", <<>>)
Group(delim, stream) == TokenTree("Group", "", delim, stream)
ExternC(stream) == <<Ident("extern"), Literal("C"), Group("Brace", stream)>>
Fn(ident, inputs, output) == ForeignItem("Fn", Signature(ident, inputs, output))

\* names that are none of the matched names
OtherNames ==
  {<<"n">>, <<"N">>, <<"t","r","a","n","s">>, <<"l","d","a">>,
   <<"i","n","f">>, <<"i","n","f","o","s">>, <<"a","b">>, <<"x">>}

ProbeNames ==
  CaseVariants(Name_info) \cup CaseVariants(Name_a) \cup CaseVariants(Name_b)
    \cup CaseVariants(Name_ipiv) \cup CaseVariants(Name_work) \cup OtherNames

PointeeTypes == {"i32", "f64", "u8", "c_char"}

\* parameters that meet the input contract
ProbeParams ==
  {Typed(n, PtrType(m, t)) : n \in ProbeNames, m \in BOOLEAN, t \in PointeeTypes}

ContextParams ==
  {Typed(<<"m">>, PtrType(FALSE, "i32")), Typed(<<"c">>, PtrType(TRUE, "f64"))}

\* one parameter of each kind among other parameters
ProbeInputs ==
  UNION {{InsertAt(ctx, pos, p) : pos \in 1..(Len(ctx) + 1), p \in ProbeParams} :
           ctx \in SeqsUpTo(ContextParams, MaxParams - 1)}

ProbeFuncs == {ExternC(<<Fn(<<"f","_">>, ins, "")>>) : ins \in ProbeInputs}

WellFormedParams ==
  {Typed(<<"n">>, PtrType(FALSE, "i32")),
   Typed(<<"B">>, PtrType(TRUE, "f64")),
   Typed(Name_info, PtrType(TRUE, "i32"))}

\* a pointer to a parameterized path is a syn::Type::Path pointee as well
GenericParams == {Typed(<<"x">>, PtrType(FALSE, "Option < i32 >"))}

MalformedParams ==
  {FnArg("Typed", "Wild", <<"_">>, PtrType(FALSE, "i32")),
   FnArg("Typed", "Tuple", <<"p">>, PtrType(FALSE, "i32")),
   Typed(<<"x">>, Type("Path", FALSE, "Path", "i32")),
   Typed(<<"x">>, Type("Reference", FALSE, "Path", "i32")),
   Typed(<<"x">>, Type("Ptr", FALSE, "Ptr", "*const f64")),
   Typed(<<"x">>, Type("Ptr", TRUE, "Array", "[f64; 4]")),
   FnArg("Receiver", "Ident", <<"s","e","l","f">>,
         Type("Reference", FALSE, "Path", "Self"))}

ShapeFuncs ==
  {ExternC(<<Fn(<<"f","_">>, ins, output)>>) :
     ins \in SeqsUpTo(WellFormedParams \cup GenericParams \cup MalformedParams,
                      MaxParams),
     output \in {"", "-> f64"}}

IdentBases == {<<>>, <<"f">>, <<"_","x">>, <<"a","_","b">>, <<"r","#","f">>}

\* the identifiers of Rust among the enumerated ones
Idents ==
  {b \o Underscores(k) : b \in IdentBases, k \in 0..MaxUnderscores}
    \ {<<>>, <<"_">>}

IdentFuncs ==
  {ExternC(<<Fn(id, ins, "")>>) :
     id \in Idents, ins \in SeqsUpTo(WellFormedParams, 1)}

Fn0 == Fn(<<"f","_">>, <<Typed(<<"n">>, PtrType(FALSE, "i32"))>>, "")
Fn1 == Fn(<<"g","_">>, <<Typed(Name_work, PtrType(TRUE, "f64"))>>, "-> f64")
Static0 == ForeignItem("Static", Signature(<<"X">>, <<>>, ""))

Streams == {<<>>, <<Fn0>>, <<Fn1>>, <<Fn0, Fn1>>, <<Static0>>}

StructFuncs ==
  {<<>>, <<Ident("extern")>>, <<Ident("extern"), Literal("C")>>}
  \cup UNION {
    {ExternC(st),
     <<Ident("extern"), Group("Brace", st)>>,
     <<Ident("extern"), Literal("C"), Group("Parenthesis", st)>>,
     <<Ident("extern"), Literal("system"), Group("Brace", st)>>,
     <<Ident("mod"), Ident("m"), Group("Brace", st)>>,
     <<Ident("unsafe"), Ident("extern"), Literal("C"), Group("Brace", st)>>,
     ExternC(st) \o ExternC(st)} : st \in Streams}

\* the declarations of the tests
Name_trans == <<"t","r","a","n","s">>
Name_n == <<"n">>
Name_nrhs == <<"n","r","h","s">>
Name_A == <<"A">>
Name_lda == <<"l","d","a">>
Name_B == <<"B">>
Name_ldb == <<"l","d","b">>
Name_norm == <<"n","o","r","m">>
Name_m == <<"m">>
Name_dgetrs == <<"d","g","e","t","r","s">>
Name_dlange == <<"d","l","a","n","g","e">>

\* tests, the declaration of dgetrs_
dgetrs_ ==
  Fn(Name_dgetrs \o <<"_">>,
     <<Typed(Name_trans, PtrType(FALSE, "c_char")),
       Typed(Name_n, PtrType(FALSE, "c_int")),
       Typed(Name_nrhs, PtrType(FALSE, "c_int")),
       Typed(Name_A, PtrType(FALSE, "f64")),
       Typed(Name_lda, PtrType(FALSE, "c_int")),
       Typed(Name_ipiv, PtrType(FALSE, "c_int")),
       Typed(Name_B, PtrType(TRUE, "f64")),
       Typed(Name_ldb, PtrType(FALSE, "c_int")),
       Typed(Name_info, PtrType(TRUE, "c_int"))>>,
     "")

\* tests::wrap_dlange, the declaration of dlange_
dlange_ ==
  Fn(Name_dlange \o <<"_">>,
     <<Typed(Name_norm, PtrType(FALSE, "c_char")),
       Typed(Name_m, PtrType(FALSE, "c_int")),
       Typed(Name_n, PtrType(FALSE, "c_int")),
       Typed(Name_A, PtrType(FALSE, "f64")),
       Typed(Name_lda, PtrType(FALSE, "c_int")),
       Typed(Name_work, PtrType(TRUE, "f64"))>>,
     "-> f64")

TestFuncs == {ExternC(<<dgetrs_>>), ExternC(<<dlange_>>)}

Funcs == ProbeFuncs \cup ShapeFuncs \cup IdentFuncs \cup StructFuncs \cup TestFuncs

---------------------------------------------------------------------------
\* The transformation of one annotated block

VARIABLES
  func,         \* lapack2: the annotated tokens
  pc,           \* the call that runs next, "done" or "panic"
  f,            \* lapack2: the parsed declaration
  lapack_name,  \* wrap: the name of the wrapper
  input,        \* wrap: the parameters of the wrapper
  call_v,       \* wrap: the arguments of the call
  wrapped,      \* lapack2: the wrapper, once quoted
  out,          \* the tokens the attribute returns
  err           \* the message of the panic

vars == <<func, pc, f, lapack_name, input, call_v, wrapped, out, err>>

NoFn == ForeignItem("None", Signature(<<>>, <<>>, ""))

Init ==
  /\ func \in Funcs
  /\ pc = "parse_foreign_fn"
  /\ f = NoFn
  /\ lapack_name = <<>>
  /\ input = <<>>
  /\ call_v = <<>>
  /\ wrapped = <<>>
  /\ out = <<>>
  /\ err = ""

\* lapack2: let f = parse_foreign_fn(&func)
ParseForeignFn ==
  /\ pc = "parse_foreign_fn"
  /\ LET r == parse_foreign_fn(func)
     IN  IF r.ok
         THEN /\ f' = r.val
              /\ pc' = "wrap_name"
              /\ err' = err
         ELSE /\ pc' = "panic"
              /\ err' = r.val
              /\ f' = f
  /\ UNCHANGED <<func, lapack_name, input, call_v, wrapped, out>>

\* wrap: let lapack_name = syn::Ident::new(...)
WrapName ==
  /\ pc = "wrap_name"
  /\ LET r == wrap_name(f.sig.ident)
     IN  IF r.ok
         THEN /\ lapack_name' = r.val
              /\ pc' = "signature_input"
              /\ err' = err
         ELSE /\ pc' = "panic"
              /\ err' = r.val
              /\ lapack_name' = lapack_name
  /\ UNCHANGED <<func, f, input, call_v, wrapped, out>>

\* wrap: let input = signature_input(&f.sig.inputs)
SignatureInput ==
  /\ pc = "signature_input"
  /\ LET r == signature_input(f.sig.inputs)
     IN  IF r.ok
         THEN /\ input' = r.val
              /\ pc' = "call"
              /\ err' = err
         ELSE /\ pc' = "panic"
              /\ err' = r.val
              /\ input' = input
  /\ UNCHANGED <<func, f, lapack_name, call_v, wrapped, out>>

\* wrap: let call = call(&f.sig.inputs)
Call ==
  /\ pc = "call"
  /\ LET r == call(f.sig.inputs)
     IN  IF r.ok
         THEN /\ call_v' = r.val
              /\ pc' = "wrap_quote"
              /\ err' = err
         ELSE /\ pc' = "panic"
              /\ err' = r.val
              /\ call_v' = call_v
  /\ UNCHANGED <<func, f, lapack_name, input, wrapped, out>>

\* wrap: quote! { pub unsafe fn ... }
WrapQuote ==
  /\ pc = "wrap_quote"
  /\ wrapped' = <<wrap_quote(f.sig.ident, lapack_name, input, call_v,
                             f.sig.output)>>
  /\ pc' = "lapack2_quote"
  /\ UNCHANGED <<func, f, lapack_name, input, call_v, out, err>>

\* lapack2: quote! { #func #wrap }
Lapack2Quote ==
  /\ pc = "lapack2_quote"
  /\ out' = lapack2_quote(func, wrapped[1])
  /\ pc' = "done"
  /\ UNCHANGED <<func, f, lapack_name, input, call_v, wrapped, err>>

Next ==
  \/ ParseForeignFn
  \/ WrapName
  \/ SignatureInput
  \/ Call
  \/ WrapQuote
  \/ Lapack2Quote

Spec == Init /\ [][Next]_vars

---------------------------------------------------------------------------
\* Vocabulary of the properties

raw == f.sig.inputs

AfterName == {"signature_input", "call", "wrap_quote", "lapack2_quote", "done"}
AfterSig == {"call", "wrap_quote", "lapack2_quote", "done"}
AfterCall == {"wrap_quote", "lapack2_quote", "done"}

IsInfo(name) == IsCaseVariant(name, Name_info)
IsArray(name) == \E base \in ArrayNames : IsCaseVariant(name, base)

\* the pointer descriptor of a parameter that is a pointer to a path
PtrOf(arg) ==
  IF arg.ty.mut THEN Mutable(arg.ty.path) ELSE Constant(arg.ty.path)

\* the input contract: plain identifiers typed as pointers to named types
InputContract(args) ==
  \A k \in 1..Len(args) :
    /\ args[k].arg = "Typed"
    /\ args[k].pat = "Ident"
    /\ args[k].ty.kind = "Ptr"
    /\ args[k].ty.elem = "Path"
    /\ \A g \in GenericParams : args[k].ty.path # g.ty.path

\* the rule table of the safe types
TableType(arg) ==
  IF IsInfo(arg.name) THEN Type("Reference", TRUE, "Path", "i32")
  ELSE IF IsArray(arg.name)
  THEN Type("RefSlice", arg.ty.mut, "Path", arg.ty.path)
  ELSE Type("Path", FALSE, "Path", arg.ty.path)

ClaimedExpr(arg) ==
  IF IsArray(arg.name)
  THEN Expr("MethodCall", arg.name,
            IF arg.ty.mut THEN "as_mut_ptr" ELSE "as_ptr", FALSE, "")
  ELSE Expr("Reference", arg.name, "", arg.ty.mut,
            IF arg.ty.path = "u8" THEN "c_char" ELSE "")

Shape(e) == <<e.kind, e.method>>

\* C6: a parameter whose name is a case variant of info, a, b, ipiv or work
\* gets the safe type and the shape of argument of the lower-case name with
\* the same pointer, and no other name is treated as info or as an array.
C6_CaseInsensitive ==
  pc \in AfterCall =>
    \A k \in 1..Len(raw) :
      /\ \A base \in {Name_info} \cup ArrayNames :
           IsCaseVariant(raw[k].name, base) =>
             /\ input[k].ty = new_type(base, PtrOf(raw[k]))
             /\ Shape(call_v[k]) = Shape(expr(base, PtrOf(raw[k])))
      /\ (~IsInfo(raw[k].name) /\ ~IsArray(raw[k].name)) =>
             /\ input[k].ty.kind = "Path"
             /\ call_v[k].kind = "Reference"

C6_Witness ==
  /\ pc \in AfterCall
  /\ \E k \in 1..Len(raw) :
       /\ IsCaseVariant(raw[k].name, Name_ipiv) /\ raw[k].name # Name_ipiv
       /\ raw[k].ty.mut
       /\ input[k].ty = Type("RefSlice", TRUE, "Path", raw[k].ty.path)
       /\ call_v[k].method = "as_mut_ptr"

\* a parameter the transformation has to refuse
Malformed(arg) ==
  \/ arg.arg # "Typed"
  \/ arg.pat # "Ident"
  \/ arg.ty.kind # "Ptr"
  \/ arg.ty.elem \in {"Ptr", "Array"}

Decl == func[3].stream[1]

\* C9: the output of an accepted input is the annotated tokens, unchanged,
\* followed by one wrapper: public, unsafe, with the safe parameters, the
\* return type of the raw declaration, and a body that calls the raw
\* identifier with the generated arguments.  Nothing is emitted before.
C9_Output ==
  /\ pc # "done" => out = <<>>
  /\ pc = "done" =>
       /\ Len(out) = 2
       /\ out[1] = func
       /\ out[2].vis = "pub"
       /\ out[2].unsafety
       /\ out[2].inputs = signature_input(Decl.sig.inputs).val
       /\ out[2].output = Decl.sig.output
       /\ out[2].callee = Decl.sig.ident
       /\ out[2].args = call(Decl.sig.inputs).val

C9_Witness ==
  /\ pc = "done"
  /\ Len(out) = 2
  /\ out[2].output = "-> f64"
  /\ Len(out[2].args) >= 1
  /\ out[2].callee = Decl.sig.ident

---------------------------------------------------------------------------
\* The types of the generated arguments

\* the integer type c_char stands for on the target
Platforms == {"i8", "u8"}

\* a type name with the aliases of the C types resolved
Resolve(plat, path) ==
  IF path = "c_char" THEN plat ELSE IF path = "c_int" THEN "i32" ELSE path

\* the safe types bound to an identifier in the signature of the wrapper
Bound(sig, ident) == {sig[j].ty : j \in {i \in 1..Len(sig) : sig[i].name = ident}}

\* a reference or pointer to `from` of mutability m is accepted where a raw
\* pointer to `to` of mutability pm is expected
Coerces(plat, m, from, pm, to) ==
  /\ (pm => m)
  /\ Resolve(plat, from) = Resolve(plat, to)

\* the argument e, typed under the signature sig, is accepted for the raw
\* pointer type ptr_ty
ArgAccepted(plat, e, sig, ptr_ty) ==
  /\ Bound(sig, e.ident) # {}
  /\ \A t \in Bound(sig, e.ident) :
       IF e.kind = "Path"
       THEN /\ t.kind = "Reference"
            /\ Coerces(plat, t.mut, t.path, ptr_ty.mut, ptr_ty.path)
       ELSE IF e.kind = "MethodCall"
       THEN /\ t.kind = "RefSlice"
            /\ (e.method = "as_mut_ptr" => t.mut)
            /\ Coerces(plat, e.method = "as_mut_ptr", t.path,
                       ptr_ty.mut, ptr_ty.path)
       ELSE /\ t.kind = "Path"
            /\ Coerces(plat, e.mut, IF e.cast = "" THEN t.path ELSE e.cast,
                       ptr_ty.mut, ptr_ty.path)

\* C1: for a declaration that meets the input contract, every argument that
\* call generates, typed under the parameters that signature_input
\* generates, is accepted for the raw pointer type at its position.
C1_RoundTrip ==
  (pc \in AfterCall /\ InputContract(raw)) =>
    \A k \in 1..Len(raw) : \A plat \in Platforms :
      ArgAccepted(plat, call_v[k], input, raw[k].ty)

\* C4: the argument of a parameter named info in any case is the identifier
\* under which signature_input declares that parameter.
C4_InfoArgument ==
  pc \in AfterCall =>
    \A k \in 1..Len(raw) :
      IsInfo(raw[k].name) => call_v[k] = Expr("Path", input[k].name, "", FALSE, "")

\* tests::signature_input, the answer
dgetrs_answer_input ==
  <<Typed(Name_trans, Type("Path", FALSE, "Path", "u8")),
    Typed(Name_n, Type("Path", FALSE, "Path", "i32")),
    Typed(Name_nrhs, Type("Path", FALSE, "Path", "i32")),
    Typed(Name_A, Type("RefSlice", FALSE, "Path", "f64")),
    Typed(Name_lda, Type("Path", FALSE, "Path", "i32")),
    Typed(Name_ipiv, Type("RefSlice", FALSE, "Path", "i32")),
    Typed(Name_B, Type("RefSlice", TRUE, "Path", "f64")),
    Typed(Name_ldb, Type("Path", FALSE, "Path", "i32")),
    Typed(Name_info, Type("Reference", TRUE, "Path", "i32"))>>

\* tests::call, the answer
dgetrs_answer_call ==
  <<Expr("Reference", Name_trans, "", FALSE, "c_char"),
    Expr("Reference", Name_n, "", FALSE, ""),
    Expr("Reference", Name_nrhs, "", FALSE, ""),
    Expr("MethodCall", Name_A, "as_ptr", FALSE, ""),
    Expr("Reference", Name_lda, "", FALSE, ""),
    Expr("MethodCall", Name_ipiv, "as_ptr", FALSE, ""),
    Expr("MethodCall", Name_B, "as_mut_ptr", FALSE, ""),
    Expr("Reference", Name_ldb, "", FALSE, ""),
    Expr("Path", Name_info, "", FALSE, "")>>

\* C5: for the dgetrs_ declaration of the tests, written with c_char and
\* c_int, the safe types use u8 and i32 and the argument of trans is
\* &(trans as c_char): the results are the answers of the tests.
C5_TestAnswers ==
  (pc \in AfterCall /\ f = dgetrs_) =>
    /\ input = dgetrs_answer_input
    /\ call_v = dgetrs_answer_call

\* exactly one block of the C calling convention with one declaration
WellFormedBlock(tokens) ==
  /\ Len(tokens) = 3
  /\ tokens[1] = Ident("extern")
  /\ tokens[2] = Literal("C")
  /\ tokens[3].tt = "Group"
  /\ tokens[3].delim = "Brace"
  /\ Len(tokens[3].stream) = 1
  /\ tokens[3].stream[1].item = "Fn"

\* C8: an input that is not exactly one extern "C" block holding exactly
\* one function declaration is not parsed and produces no output.
C8_StructuralErrors ==
  ~WellFormedBlock(func) =>
    /\ out = <<>>
    /\ f = NoFn
    /\ pc \in {"parse_foreign_fn", "panic"}

\* an identifier without its trailing underscores
Stripped(id) ==
  CHOOSE r \in {SubSeq(id, 1, k) : k \in 0..Len(id)} :
    /\ r = <<>> \/ r[Len(r)] # "_"
    /\ \A j \in (Len(r) + 1)..Len(id) : id[j] = "_"

\* the original statement of C10: for every raw identifier, whatever its
\* number of trailing underscores, wrap succeeds on a declaration that meets
\* the input contract and names the wrapper with the identifier less its
\* trailing underscores.
C10_Naming ==
  (f # NoFn /\ InputContract(raw)) =>
    /\ pc # "panic"
    /\ pc \in AfterName => lapack_name = Stripped(f.sig.ident)

\* an identifier that is not written r#name and is not made of underscores
PlainIdent(id) ==
  /\ \E k \in 1..Len(id) : id[k] # "_"
  /\ \A k \in 1..Len(id) : id[k] # "#"

\* C10: for every raw identifier that is not in raw form and has a character
\* other than an underscore, whatever its number of trailing underscores,
\* wrap succeeds on a declaration that meets the input contract and names
\* the wrapper with the identifier less all its trailing underscores, so a
\* name without one is kept and stripping the result again changes nothing;
\* for any other identifier wrap panics at the name and emits nothing.
C10_NamingAmended ==
  f # NoFn =>
    /\ (PlainIdent(f.sig.ident) /\ InputContract(raw)) =>
         /\ pc # "panic"
         /\ pc \in AfterName =>
              /\ lapack_name = Stripped(f.sig.ident)
              /\ Stripped(lapack_name) = lapack_name
              /\ (f.sig.ident[Len(f.sig.ident)] # "_" =>
                    lapack_name = f.sig.ident)
    /\ ~PlainIdent(f.sig.ident) =>
         /\ pc \in {"wrap_name", "panic"}
         /\ out = <<>>

C10_Witness ==
  /\ pc = "done"
  /\ Len(f.sig.ident) = Len(lapack_name) + 2
  /\ lapack_name[1] = "_"
  /\ out[2].ident = lapack_name

====
